---- MODULE Spec2Model ----
(***************************************************************************)
(* backend/debug_cbor.py: a script that decodes a URL-safe base64 payload, *)
(* parses the bytes as CBOR and prints either the parsed structure or a    *)
(* raw first-byte analysis.  The payload is the script's input; here it    *)
(* ranges over all strings of bounded length over a small set of           *)
(* characters.  The library calls the script makes (base64, cbor2, json)   *)
(* are modelled by what they do on those inputs.                           *)
(***************************************************************************)
EXTENDS Integers, Sequences, FiniteSets

VARIABLES base64_data, pc, decoded, parsed, e, out, uncaught

vars == <<base64_data, pc, decoded, parsed, e, out, uncaught>>

(***************************************************************************)
(* Bounds and the input characters.                                        *)
(***************************************************************************)
\* longest payload, in characters
MaxLen == 4

\* a character outside ASCII (any such character behaves the same)
NonAscii == "U+00E9"

\* the characters payloads are built from: data characters with the values
\* 0, 16, 20, 40, 41 and 62 (twice: standard '+' and URL-safe '-'), the
\* padding character, an ASCII character outside both alphabets and a
\* character outside ASCII.  They decode to the first bytes 0x00-0x03,
\* 0x40-0x43, 0x50-0x53, 0xa0-0xa7 and 0xf8-0xfb.  '/' and '_' (value 63)
\* are to '+' and '-' what these are to each other and are left out.
Chars == {"A", "Q", "U", "o", "p", "+", "-", "=", "!", NonAscii}

RECURSIVE StringsUpTo(_)
StringsUpTo(n) ==
    IF n = 0 THEN {<<>>}
    ELSE LET shorter == StringsUpTo(n - 1)
         IN  shorter \cup {Append(s, c) : s \in {t \in shorter : Len(t) = n - 1}, c \in Chars}

Payloads == StringsUpTo(MaxLen)

Min(a, b) == IF a < b THEN a ELSE b

RECURSIVE Repeat(_, _)
Repeat(c, n) == IF n <= 0 THEN <<>> ELSE <<c>> \o Repeat(c, n - 1)

(***************************************************************************)
(* base64.urlsafe_b64decode (CPython base64.py and binascii.a2b_base64,    *)
(* non-strict mode), called at line 10.                                    *)
(***************************************************************************)
\* the standard base64 alphabet: the index of a character, less one, is its value
B64Alphabet ==
    << "A", "B", "C", "D", "E", "F", "G", "H", "I", "J", "K", "L", "M",
       "N", "O", "P", "Q", "R", "S", "T", "U", "V", "W", "X", "Y", "Z",
       "a", "b", "c", "d", "e", "f", "g", "h", "i", "j", "k", "l", "m",
       "n", "o", "p", "q", "r", "s", "t", "u", "v", "w", "x", "y", "z",
       "0", "1", "2", "3", "4", "5", "6", "7", "8", "9", "+", "/" >>

InB64Table(c) == \E i \in 1..Len(B64Alphabet) : B64Alphabet[i] = c

B64Value(c) == (CHOOSE i \in 1..Len(B64Alphabet) : B64Alphabet[i] = c) - 1

\* a faulty variant of the translation: none, as with base64.b64decode
NoTranslation(c) == c

\* bytes.maketrans(b'-_', b'+/'): the URL-safe characters become the standard ones
UrlsafeTranslate(c) ==
    IF c = "-" THEN "+" ELSE IF c = "_" THEN "/" ELSE c

\* binascii.a2b_base64 with strict_mode off: characters outside the table are
\* skipped, a pad sequence that completes a quad ends the decoding, and at
\* the end of the input an open quad is an error
RECURSIVE A2bBase64(_, _, _, _, _, _)
A2bBase64(s, i, quad_pos, leftchar, pads, bin) ==
    IF i > Len(s)
    THEN IF quad_pos = 0 THEN [ok |-> TRUE, err |-> "none", bytes |-> bin]
         ELSE [ok |-> FALSE, err |-> "binascii.Error", bytes |-> <<>>]
    ELSE IF s[i] = "="
    THEN IF quad_pos >= 2 /\ quad_pos + pads + 1 >= 4
         THEN [ok |-> TRUE, err |-> "none", bytes |-> bin]
         ELSE A2bBase64(s, i + 1, quad_pos, leftchar,
                        IF quad_pos >= 2 THEN pads + 1 ELSE pads, bin)
    ELSE IF ~InB64Table(s[i])
    THEN A2bBase64(s, i + 1, quad_pos, leftchar, pads, bin)
    ELSE LET this_ch == B64Value(s[i])
         IN  CASE quad_pos = 0 ->
                    A2bBase64(s, i + 1, 1, this_ch, 0, bin)
               [] quad_pos = 1 ->
                    A2bBase64(s, i + 1, 2, this_ch % 16, 0,
                              Append(bin, leftchar * 4 + (this_ch \div 16)))
               [] quad_pos = 2 ->
                    A2bBase64(s, i + 1, 3, this_ch % 4, 0,
                              Append(bin, leftchar * 16 + (this_ch \div 4)))
               [] OTHER ->
                    A2bBase64(s, i + 1, 0, 0, 0,
                              Append(bin, leftchar * 64 + this_ch))

\* base64.urlsafe_b64decode(s): a str argument is encoded as ASCII first
\* (ValueError when it cannot be), translated, and decoded without validation
UrlsafeB64Decode(s) ==
    IF \E i \in 1..Len(s) : s[i] = NonAscii
    THEN [ok |-> FALSE, err |-> "ValueError", bytes |-> <<>>]
    ELSE A2bBase64([i \in 1..Len(s) |-> UrlsafeTranslate(s[i])], 1, 0, 0, 0, <<>>)

\* a faulty variant of the padding: none, the payload is decoded as it is
NoPadding(payload) == 0

\* line 10: the number of '=' appended to the payload
PaddingCount(payload) == 4 - (Len(payload) % 4)

\* line 10: the argument of urlsafe_b64decode
Padded(payload) == payload \o Repeat("=", PaddingCount(payload))

\* line 10 as a function of the payload
DecodePayload(payload) == UrlsafeB64Decode(Padded(payload))

(***************************************************************************)
(* cbor2.loads, called at line 16.  A decoded value is a record            *)
(* [t |-> its Python type, v |-> its content].  Integers keep the bytes of *)
(* their argument instead of the number, lengths saturate just above the   *)
(* number of bytes there are (a longer item is truncated whatever its      *)
(* length says), a dict is the sequence of its pairs in decoding order, a  *)
(* list stands for the tuple cbor2 makes of an array inside a map key too, *)
(* and a tag is the CBORTag of its number and item (cbor2's own decoders   *)
(* for the registered tags are left out: in the inputs here a tag's item   *)
(* is always cut off by the end of the bytes).                             *)
(***************************************************************************)
Major(ib) == ib \div 32

Info(ib) == ib % 32

Fail(err) == [ok |-> FALSE, err |-> err, next |-> 0, val |-> [t |-> "none", v |-> 0]]

Done(next, val) == [ok |-> TRUE, err |-> "none", next |-> next, val |-> val]

RECURSIVE ArgValue(_, _)
ArgValue(raw, cap) ==
    IF raw = <<>> THEN 0
    ELSE Min(ArgValue(SubSeq(raw, 1, Len(raw) - 1), cap) * 256 + raw[Len(raw)], cap)

\* CBORDecoder._decode_length: the argument of the initial byte at b[i]
DecodeLength(b, i, allow_indefinite) ==
    LET info == Info(b[i])
        k    == IF info = 24 THEN 1 ELSE IF info = 25 THEN 2 ELSE IF info = 26 THEN 4 ELSE 8
        none == [ok |-> FALSE, err |-> "none", next |-> 0, n |-> 0, raw |-> <<>>, indefinite |-> FALSE]
    IN  IF info < 24
        THEN [none EXCEPT !.ok = TRUE, !.next = i + 1, !.n = info]
        ELSE IF info <= 27
        THEN IF i + k > Len(b)
             THEN [none EXCEPT !.err = "CBORDecodeEOF"]
             ELSE [none EXCEPT !.ok = TRUE, !.next = i + k + 1,
                               !.raw = SubSeq(b, i + 1, i + k),
                               !.n = ArgValue(SubSeq(b, i + 1, i + k), Len(b) + 1)]
        ELSE IF info = 31 /\ allow_indefinite
        THEN [none EXCEPT !.ok = TRUE, !.next = i + 1, !.indefinite = TRUE]
        ELSE [none EXCEPT !.err = "CBORDecodeValueError"]

\* the argument as its bytes: the low five bits themselves below 24
ArgBytes(len) == IF len.raw = <<>> THEN <<len.n>> ELSE len.raw

\* bytes.decode("utf-8"): is bs[i..] well-formed UTF-8
RECURSIVE Utf8Valid(_, _)
Utf8Valid(bs, i) ==
    LET cont(j, lo, hi) == j <= Len(bs) /\ bs[j] >= lo /\ bs[j] <= hi
        c == bs[i]
    IN  IF i > Len(bs) THEN TRUE
        ELSE IF c < 128 THEN Utf8Valid(bs, i + 1)
        ELSE IF c >= 194 /\ c <= 223
        THEN cont(i + 1, 128, 191) /\ Utf8Valid(bs, i + 2)
        ELSE IF c >= 224 /\ c <= 239
        THEN /\ cont(i + 1, IF c = 224 THEN 160 ELSE 128, IF c = 237 THEN 159 ELSE 191)
             /\ cont(i + 2, 128, 191)
             /\ Utf8Valid(bs, i + 3)
        ELSE IF c >= 240 /\ c <= 244
        THEN /\ cont(i + 1, IF c = 240 THEN 144 ELSE 128, IF c = 244 THEN 143 ELSE 191)
             /\ cont(i + 2, 128, 191)
             /\ cont(i + 3, 128, 191)
             /\ Utf8Valid(bs, i + 4)
        ELSE FALSE

\* CBORDecoder.decode_bytestring / decode_string, indefinite length: definite
\* chunks of the same major type up to the break byte
RECURSIVE DecodeChunks(_, _, _, _)
DecodeChunks(b, i, major, acc) ==
    IF i > Len(b) THEN Fail("CBORDecodeEOF")
    ELSE IF b[i] = 255 THEN Done(i + 1, [t |-> "chunks", v |-> acc])
    ELSE IF Major(b[i]) # major THEN Fail("CBORDecodeValueError")
    ELSE LET len == DecodeLength(b, i, FALSE)
         IN  IF ~len.ok THEN Fail(len.err)
             ELSE IF len.next + len.n - 1 > Len(b) THEN Fail("CBORDecodeEOF")
             ELSE DecodeChunks(b, len.next + len.n, major,
                               acc \o SubSeq(b, len.next, len.next + len.n - 1))

\* CBORDecoder.decode_special: major type 7
DecodeSpecial(b, i) ==
    LET info == Info(b[i])
    IN  IF info < 20 THEN Done(i + 1, [t |-> "CBORSimpleValue", v |-> info])
        ELSE IF info = 20 THEN Done(i + 1, [t |-> "bool", v |-> FALSE])
        ELSE IF info = 21 THEN Done(i + 1, [t |-> "bool", v |-> TRUE])
        ELSE IF info = 22 THEN Done(i + 1, [t |-> "NoneType", v |-> 0])
        ELSE IF info = 23 THEN Done(i + 1, [t |-> "undefined", v |-> 0])
        ELSE IF info = 24
        THEN IF i + 1 > Len(b) THEN Fail("CBORDecodeEOF")
             ELSE IF b[i + 1] > 23 /\ b[i + 1] < 32 THEN Fail("CBORDecodeValueError")
             ELSE Done(i + 2, [t |-> "CBORSimpleValue", v |-> b[i + 1]])
        ELSE IF info <= 27
        THEN LET len == DecodeLength(b, i, FALSE)
             IN  IF ~len.ok THEN Fail(len.err)
                 ELSE Done(len.next, [t |-> "float", v |-> len.raw])
        ELSE IF info = 31 THEN Done(i + 1, [t |-> "break_marker", v |-> 0])
        ELSE Fail("CBORDecodeValueError")

\* CBORDecoder._decode: the item whose initial byte is b[i], and the index
\* after it.  n and acc carry the loops of decode_array and decode_map: with
\* mode "item" one item is decoded; with mode "array" the n items (n < 0:
\* up to the break) after acc; with mode "map" the n pairs after acc.
RECURSIVE Decode(_, _, _, _, _)
Decode(b, i, mode, n, acc) ==
    IF mode = "array"
    THEN IF n = 0 THEN Done(i, [t |-> "list", v |-> acc])
         ELSE LET item == Decode(b, i, "item", 0, <<>>)
              IN  IF ~item.ok THEN item
                  ELSE IF n < 0 /\ item.val.t = "break_marker"
                  THEN Done(item.next, [t |-> "list", v |-> acc])
                  ELSE Decode(b, item.next, "array", IF n < 0 THEN n ELSE n - 1,
                              Append(acc, item.val))
    ELSE IF mode = "map"
    THEN IF n = 0 THEN Done(i, [t |-> "dict", v |-> acc])
         ELSE LET key == Decode(b, i, "item", 0, <<>>)
              IN  IF ~key.ok THEN key
                  ELSE IF n < 0 /\ key.val.t = "break_marker"
                  THEN Done(key.next, [t |-> "dict", v |-> acc])
                  ELSE LET value == Decode(b, key.next, "item", 0, <<>>)
                       IN  IF ~value.ok THEN value
                           ELSE Decode(b, value.next, "map", IF n < 0 THEN n ELSE n - 1,
                                       Append(acc, <<key.val, value.val>>))
    ELSE IF i > Len(b) THEN Fail("CBORDecodeEOF")
    ELSE LET major == Major(b[i])
             len   == DecodeLength(b, i, major \in 2..5)
         IN  IF major = 7 THEN DecodeSpecial(b, i)
             ELSE IF ~len.ok THEN Fail(len.err)
             ELSE IF major = 0 THEN Done(len.next, [t |-> "int", v |-> <<0, ArgBytes(len)>>])
             ELSE IF major = 1 THEN Done(len.next, [t |-> "int", v |-> <<1, ArgBytes(len)>>])
             ELSE IF major \in {2, 3}
             THEN LET str == IF len.indefinite THEN DecodeChunks(b, len.next, major, <<>>)
                             ELSE IF len.next + len.n - 1 > Len(b) THEN Fail("CBORDecodeEOF")
                             ELSE Done(len.next + len.n,
                                       [t |-> "chunks", v |-> SubSeq(b, len.next, len.next + len.n - 1)])
                  IN  IF ~str.ok THEN str
                      ELSE IF major = 2 THEN Done(str.next, [t |-> "bytes", v |-> str.val.v])
                      ELSE IF Utf8Valid(str.val.v, 1) THEN Done(str.next, [t |-> "str", v |-> str.val.v])
                      ELSE Fail("CBORDecodeValueError")
             ELSE IF major = 4
             THEN Decode(b, len.next, "array", IF len.indefinite THEN -1 ELSE len.n, <<>>)
             ELSE IF major = 5
             THEN Decode(b, len.next, "map", IF len.indefinite THEN -1 ELSE len.n, <<>>)
             ELSE LET item == Decode(b, len.next, "item", 0, <<>>)
                  IN  IF ~item.ok THEN item
                      ELSE Done(item.next, [t |-> "CBORTag", v |-> <<ArgBytes(len), item.val>>])

\* cbor2.loads(b): the first item of b; what follows it is not read
CborLoads(b) == Decode(b, 1, "item", 0, <<>>)

(***************************************************************************)
(* json.dumps(parsed, indent=2, default=str), called at line 18.           *)
(***************************************************************************)
\* the types json accepts as the key of a dict
JsonKeyTypes == {"str", "int", "float", "bool", "NoneType"}

\* whether json.dumps returns text for the value (TRUE) or raises TypeError
\* for a key: lists and dicts are walked, every other value is text already
\* or becomes text through default=str
RECURSIVE JsonDumpsOk(_)
JsonDumpsOk(val) ==
    IF val.t = "list" THEN \A j \in 1..Len(val.v) : JsonDumpsOk(val.v[j])
    ELSE IF val.t = "dict"
    THEN \A j \in 1..Len(val.v) : val.v[j][1].t \in JsonKeyTypes /\ JsonDumpsOk(val.v[j][2])
    ELSE TRUE

(***************************************************************************)
(* The script.  pc is the line the run is at, "done" after the last line   *)
(* and "crashed" when an exception left the script; out is what has been   *)
(* printed, one entry per line of output.                                  *)
(***************************************************************************)
\* line 12: the hex dump shows decoded[:100]
HexDumpBytes == 100

\* lines 25 and 27: the first bytes the script knows
MapWith4Keys == 164

MapWith5Keys == 165

Unset == [t |-> "unset", v |-> 0]

Init ==
    /\ base64_data \in Payloads
    /\ pc = "L10"
    /\ decoded = <<>>
    /\ parsed = Unset
    /\ e = "none"
    /\ out = <<>>
    /\ uncaught = "none"

\* line 10: decoded = base64.urlsafe_b64decode(base64_data + "=" * (...)),
\* outside any try
DecodeLine ==
    /\ pc = "L10"
    /\ LET r == DecodePayload(base64_data)
       IN  IF r.ok
           THEN /\ decoded' = r.bytes
                /\ pc' = "L11"
                /\ uncaught' = uncaught
           ELSE /\ decoded' = decoded
                /\ pc' = "crashed"
                /\ uncaught' = r.err
    /\ UNCHANGED <<base64_data, parsed, e, out>>

\* lines 11-12: the length and the hex dump
PrintDecoded ==
    /\ pc = "L11"
    /\ out' = out \o << <<"Decoded bytes length", Len(decoded)>>,
                        <<"Hex dump", SubSeq(decoded, 1, Min(HexDumpBytes, Len(decoded)))>> >>
    /\ pc' = "L16"
    /\ UNCHANGED <<base64_data, decoded, parsed, e, uncaught>>

\* line 16, in the try block: parsed = cbor2.loads(decoded)
LoadsLine ==
    /\ pc = "L16"
    /\ LET r == CborLoads(decoded)
       IN  IF r.ok
           THEN /\ parsed' = r.val
                /\ pc' = "L17"
                /\ e' = e
           ELSE /\ parsed' = parsed
                /\ pc' = "L20"
                /\ e' = r.err
    /\ UNCHANGED <<base64_data, decoded, out, uncaught>>

\* lines 17-18, in the try block: the heading is printed, then json.dumps
\* either returns the text that is printed or raises into the except clause
RenderLines ==
    /\ pc = "L17"
    /\ IF JsonDumpsOk(parsed)
       THEN /\ out' = out \o << <<"Parsed CBOR structure:">>, <<"json", parsed>> >>
            /\ pc' = "done"
            /\ e' = e
       ELSE /\ out' = Append(out, <<"Parsed CBOR structure:">>)
            /\ pc' = "L20"
            /\ e' = "TypeError"
    /\ UNCHANGED <<base64_data, decoded, parsed, uncaught>>

\* lines 19-23: except Exception as e, the message and the heading
ExceptLines ==
    /\ pc = "L20"
    /\ out' = out \o << <<"Error parsing CBOR", e>>, <<"Raw byte analysis:">> >>
    /\ pc' = "L24"
    /\ UNCHANGED <<base64_data, decoded, parsed, e, uncaught>>

\* line 24: decoded[0] raises IndexError, inside the except clause, when
\* there are no bytes
FirstByteLine ==
    /\ pc = "L24"
    /\ IF decoded = <<>>
       THEN /\ pc' = "crashed"
            /\ uncaught' = "IndexError"
            /\ out' = out
       ELSE /\ pc' = "L25"
            /\ uncaught' = uncaught
            /\ out' = Append(out, <<"First byte", decoded[1]>>)
    /\ UNCHANGED <<base64_data, decoded, parsed, e>>

\* a faulty variant of the classification: the two messages swapped
ClassificationSwapped(first) ==
    IF first = MapWith4Keys THEN << <<"-> This is a CBOR map with", 5, "keys">> >>
    ELSE IF first = MapWith5Keys THEN << <<"-> This is a CBOR map with", 4, "keys">> >>
    ELSE <<>>

\* lines 25-28: what is printed for the first byte
Classification(first) ==
    IF first = MapWith4Keys THEN << <<"-> This is a CBOR map with", 4, "keys">> >>
    ELSE IF first = MapWith5Keys THEN << <<"-> This is a CBOR map with", 5, "keys">> >>
    ELSE <<>>

\* lines 25-28
ClassifyLines ==
    /\ pc = "L25"
    /\ out' = out \o Classification(decoded[1])
    /\ pc' = "done"
    /\ UNCHANGED <<base64_data, decoded, parsed, e, uncaught>>

Next ==
    \/ DecodeLine
    \/ PrintDecoded
    \/ LoadsLine
    \/ RenderLines
    \/ ExceptLines
    \/ FirstByteLine
    \/ ClassifyLines

Spec == Init /\ [][Next]_vars

(***************************************************************************)
(* What the properties below speak of.                                     *)
(***************************************************************************)
\* line 10 has run and raised: the run ended there
DecodeFailed == pc = "crashed" /\ uncaught \in {"binascii.Error", "ValueError"}

\* line 10 has run and returned the bytes
DecodeSucceeded == pc # "L10" /\ ~DecodeFailed

\* cbor2.loads has raised in this run
ParseFailed == e \in {"CBORDecodeEOF", "CBORDecodeValueError"}

\* the except clause (lines 19-28) has been entered in this run
FallbackEntered == e # "none"

\* the run has ended, one way or the other
Ended == pc \in {"done", "crashed"}

Printed(line) == \E j \in 1..Len(out) : out[j] = line

PrintedHeading(text) == \E j \in 1..Len(out) : out[j][1] = text

MapLine(n) == <<"-> This is a CBOR map with", n, "keys">>

\* the URL-safe base64 alphabet of RFC 4648, section 5
UrlsafeAlphabet ==
    ({B64Alphabet[i] : i \in 1..Len(B64Alphabet)} \ {"+", "/"}) \cup {"-", "_"}

CharsOf(s) == {s[i] : i \in 1..Len(s)}

(***************************************************************************)
(* The properties.                                                         *)
(***************************************************************************)
\* C1: no run ends with an uncaught error: a failure of the base64
\* decoding and a failure of the CBOR parsing are both caught and turned
\* into printed diagnostics.
C1_NoUncaughtError ==
    /\ pc # "crashed"
    /\ uncaught = "none"

\* C2: once the except clause is entered, the message, the first-byte line
\* and the classification are printed without an exception, whatever the
\* decoded bytes are, the empty bytes included.
C2_DiagnosisNeverRaises ==
    FallbackEntered => pc # "crashed"

\* C3: for every value cbor2.loads returns, maps with byte-string keys
\* included, the rendering of lines 17-18 finishes without an error and
\* prints text.
C3_RenderTotal ==
    /\ e # "TypeError"
    /\ (parsed.t # "unset" /\ pc \notin {"L16", "L17"}) => PrintedHeading("json")

\* C4: when cbor2.loads has returned a value, the except clause is never
\* entered, whatever the rendering does: no "Error parsing CBOR" line and
\* no raw byte analysis.
C4_FallbackOnlyOnParseFailure ==
    parsed.t # "unset" =>
        /\ ~FallbackEntered
        /\ pc \notin {"L20", "L24", "L25"}
        /\ ~PrintedHeading("Error parsing CBOR")
        /\ ~PrintedHeading("Raw byte analysis:")

\* a payload with every '+' written '-' and every '/' written '_'
PlusSlashAsUrlsafe(payload) ==
    [i \in 1..Len(payload) |->
        IF payload[i] = "+" THEN "-" ELSE IF payload[i] = "/" THEN "_" ELSE payload[i]]

\* an ASCII character that is neither padding nor a character of the
\* URL-safe or of the standard alphabet
Stray(c) == c # NonAscii /\ c # "=" /\ c \notin UrlsafeAlphabet \cup {"+", "/"}

NotStray(c) == ~Stray(c)

\* what this run's line 10 did is what the decoding result r says
SameOutcome(r) ==
    /\ r.ok <=> DecodeSucceeded
    /\ DecodeSucceeded => decoded = r.bytes
    /\ DecodeFailed => uncaught = r.err

\* C5, as the specification states it: line 10 fails with a format error
\* for every payload that holds a character that is neither of the URL-safe
\* alphabet nor '='; '+' and '/' are rejected.
C5_RejectsOutsideAlphabet ==
    (pc # "L10" /\ CharsOf(base64_data) \ (UrlsafeAlphabet \cup {"="}) # {})
        => DecodeFailed

\* C5, amended: line 10 fails for every payload that holds a character
\* outside ASCII.  An ASCII character outside the URL-safe alphabet does not
\* make it fail: '+' and '/' are decoded as '-' and '_' are (the payload
\* decodes, or fails, as the one with '-' and '_' in their place), and any
\* other such character is skipped (the padded payload decodes, or fails,
\* as it does with these characters taken out).
C5_PlusSlashDecodedStraySkipped ==
    pc # "L10" =>
        /\ NonAscii \in CharsOf(base64_data) => DecodeFailed /\ uncaught = "ValueError"
        /\ SameOutcome(DecodePayload(PlusSlashAsUrlsafe(base64_data)))
        /\ SameOutcome(UrlsafeB64Decode(SelectSeq(Padded(base64_data), NotStray)))

\* C5: a payload with '+', with '-' and with a stray character has been
\* decoded to two bytes.
C5_Witness ==
    /\ pc = "L11"
    /\ {"+", "-", "!"} \subseteq CharsOf(base64_data)
    /\ Len(decoded) = 2

\* the URL-safe alphabet in the order of its values
UrlsafeValues ==
    [i \in 1..Len(B64Alphabet) |->
        IF B64Alphabet[i] = "+" THEN "-" ELSE IF B64Alphabet[i] = "/" THEN "_" ELSE B64Alphabet[i]]

RefValue(c) == (CHOOSE i \in 1..Len(UrlsafeValues) : UrlsafeValues[i] = c) - 1

\* a correctly padded URL-safe base64 string (RFC 4648): whole quads of
\* alphabet characters, the last quad ending in no, one or two '='
ValidUrlsafeB64(s) ==
    /\ Len(s) % 4 = 0
    /\ \A i \in 1..Len(s) :
          \/ s[i] \in UrlsafeAlphabet
          \/ s[i] = "=" /\ i > Len(s) - 2 /\ \A j \in i..Len(s) : s[j] = "="

\* the reference decoder, quad by quad: three bytes of a full quad, two of
\* a quad with one '=', one of a quad with two
RECURSIVE RefDecode(_)
RefDecode(s) ==
    IF Len(s) < 4 THEN <<>>
    ELSE LET a == RefValue(s[1])
             b == RefValue(s[2])
             c == IF s[3] = "=" THEN 0 ELSE RefValue(s[3])
             d == IF s[4] = "=" THEN 0 ELSE RefValue(s[4])
             three == << a * 4 + (b \div 16), (b % 16) * 16 + (c \div 4), (c % 4) * 64 + d >>
             n == IF s[3] = "=" THEN 1 ELSE IF s[4] = "=" THEN 2 ELSE 3
         IN  SubSeq(three, 1, n) \o RefDecode(SubSeq(s, 5, Len(s)))

\* the payload is a valid string less k of its trailing '='
PayloadLacks(k) == ValidUrlsafeB64(base64_data \o Repeat("=", k))

\* C6: when the payload is a valid URL-safe base64 string from which 0 to 3
\* trailing '=' were removed, line 10 succeeds and decoded is what the
\* reference decoder returns for the padded string.
C6_MissingPaddingTolerated ==
    pc # "L10" =>
        \A k \in 0..3 :
            PayloadLacks(k) =>
                /\ DecodeSucceeded
                /\ decoded = RefDecode(base64_data \o Repeat("=", k))

\* C6: a payload of three characters that lacks its one '=' has been
\* decoded to the two bytes of the reference decoder.
C6_Witness ==
    /\ pc = "L11"
    /\ Len(base64_data) = 3
    /\ PayloadLacks(1)
    /\ Len(decoded) = 2
    /\ decoded = RefDecode(Append(base64_data, "="))

\* C9: the number of '=' appended at line 10 is (4 - len mod 4) mod 4: from
\* 0 to 3, and 0 when the length of the payload is a multiple of 4.
C9_PaddingModFour ==
    pc # "L10" =>
        /\ Len(Padded(base64_data)) - Len(base64_data) = (4 - (Len(base64_data) % 4)) % 4
        /\ Len(Padded(base64_data)) - Len(base64_data) \in 0..3

\* the bytes are one complete well-formed CBOR item and nothing more
OneCompleteItem(b) == CborLoads(b).ok /\ CborLoads(b).next = Len(b) + 1

\* decoded is a complete item less its last byte
TruncatedItem == \E last \in 0..255 : OneCompleteItem(Append(decoded, last))

\* the lines printed after the first-byte line
PrintedClassification ==
    IF \E j \in 1..Len(out) : out[j][1] = "First byte"
    THEN LET j == CHOOSE j \in 1..Len(out) : out[j][1] = "First byte"
         IN  SubSeq(out, j + 1, Len(out))
    ELSE <<>>

\* C7: when the decoded bytes are a complete well-formed CBOR item less
\* its last byte, cbor2.loads fails, and the run ends without another
\* error, having printed the length of the bytes as they are and the
\* classification of the first byte of the item.
C7_TruncationDiagnosed ==
    (Ended /\ DecodeSucceeded /\ TruncatedItem) =>
        /\ ParseFailed
        /\ pc = "done"
        /\ Printed(<<"Decoded bytes length", Len(decoded)>>)
        /\ decoded # <<>>
        /\ Printed(<<"First byte", decoded[1]>>)
        /\ PrintedClassification = Classification(decoded[1])

\* C8: when the except clause runs on bytes whose first byte is 0xa0 + n
\* with 0 <= n <= 23, a line saying that the item is a map with n entries
\* is printed, for every such n.
C8_EveryMapSizeClassified ==
    (pc = "done" /\ FallbackEntered /\ decoded[1] \in 160..183) =>
        Printed(MapLine(decoded[1] - 160))

\* C10: when cbor2.loads has failed on bytes whose first byte is 0xa4, the
\* run ends having printed that the item is a map with 4 keys and not that
\* it has 5; with 0xa5, that it has 5 keys and not that it has 4; and no
\* run prints both.
C10_FourAndFiveKeys ==
    /\ ~(Printed(MapLine(4)) /\ Printed(MapLine(5)))
    /\ (pc = "done" /\ ParseFailed /\ decoded[1] = 164) =>
            Printed(MapLine(4)) /\ ~Printed(MapLine(5))
    /\ (pc = "done" /\ ParseFailed /\ decoded[1] = 165) =>
            Printed(MapLine(5)) /\ ~Printed(MapLine(4))

\* C10: a run in which cbor2.loads failed on bytes that begin with 0xa5
\* has ended with the line for 5 keys.
C10_Witness ==
    /\ pc = "done"
    /\ ParseFailed
    /\ Len(decoded) = 3
    /\ decoded[1] = 165
    /\ Printed(MapLine(5))

====
